---- MODULE Spec2Model ----
(***************************************************************************)
(* deploy.sh of EvoAgentX: a sequential bash script run under `set -e`.    *)
(* The state is the script's variables and position, the three files it    *)
(* touches (.env, docker-compose.yml, docker-compose.yml.bak) and what it  *)
(* has run and printed.  Text is a sequence of one-character strings, so   *)
(* that the sed substitution is computed on the characters.                *)
(* The script is lines 1-98 of deploy.sh; the text that follows it in the  *)
(* file is a credentials setup guide, not shell, and is not modelled.      *)
(* Definitions marked "Faulty variant" are the script with one plausible   *)
(* slip; they are not part of Next.                                        *)
(***************************************************************************)
EXTENDS Integers, Sequences, FiniteSets, TLC

\* Number of times the script is run one after the other on the same directory.
MaxRuns == 3

---------------------------------------------------------------------------
\* Text constants of the script.

DEFAULT_PORT == <<"8", "8", "8", "8", "8">>

DEFAULT_DOMAIN == <<"evoagentx.evoagentx.naranja.lucienfc.eu.org">>

\* The left-hand side of the sed command: s/8000:8000/.../g
Pattern == <<"8", "0", "0", "0", ":", "8", "0", "0", "0">>

\* The fixed tail of the sed replacement: ${PORT}:8000
ContainerPart == <<":", "8", "0", "0", "0">>

\* docker-compose.yml as shipped: the port mapping the sed command looks for.
DefaultDescriptor == Pattern

\* Ports an operator passes as $1 (digit strings; "" is the empty argument).
PortArgs ==
    { <<>>,
      <<"9", "0", "9", "0">>,
      <<"8", "0", "0", "0">>,
      <<"1", "8", "0", "0", "0">> }

\* Domains an operator passes as $2.
DomainArgs == { <<>>, <<"example.org">> }

\* The command lines: ./deploy.sh, ./deploy.sh port, ./deploy.sh port domain
Argvs ==
    {<<>>} \cup { <<p>> : p \in PortArgs }
           \cup { <<p, d>> : p \in PortArgs, d \in DomainArgs }

\* Exit statuses a failing external command (cp, read, sed, docker-compose)
\* hands to the script, which `set -e` makes the script's own exit status.
FailStatus == {1, 2}

NoFile == [exists |-> FALSE, text |-> <<>>]

File(t) == [exists |-> TRUE, text |-> t]

\* Contents of .env: the operator's own file, or the copy of .env.example.
UserSecrets == <<"operator-keys">>

TemplateSecrets == <<"env-example">>

---------------------------------------------------------------------------
VARIABLES
    status,     \* "idle" before the first run, "running", "exited"
    pc,         \* the command the script is at (where it stopped, once exited)
    exitCode,   \* exit status of the run, meaningful when status = "exited"
    argv,       \* positional parameters of the run
    PORT,       \* shell variable PORT
    DOMAIN_NAME,\* shell variable DOMAIN (a reserved word here)
    docker,     \* `command -v docker` succeeds
    compose,    \* `command -v docker-compose` succeeds
    envFile,    \* the file .env
    desc,       \* text of docker-compose.yml
    bak,        \* the file docker-compose.yml.bak
    log,        \* commands run and messages printed by the run, in order
    urls,       \* the "Access URLs" lines printed by the run
    failed,     \* commands of the run that returned a non-zero status
    start,      \* the three files as they were when the run started
    copies,     \* successful executions of `cp .env.example .env` so far
    runs        \* runs started so far

vars == << status, pc, exitCode, argv, PORT, DOMAIN_NAME, docker, compose, envFile,
           desc, bak, log, urls, failed, start, copies, runs >>

files == << envFile, desc, bak >>

config == << argv, PORT, DOMAIN_NAME, docker, compose, start, runs >>

---------------------------------------------------------------------------
\* Faulty variant: ${i-def}, which keeps a parameter given as the empty string.
ParamOrDefaultUnsetOnly(args, i, def) ==
    IF Len(args) >= i THEN args[i] ELSE def

\* ${i:-def}: the i-th positional parameter, or def when it is unset or null.
ParamOrDefault(args, i, def) ==
    IF Len(args) >= i /\ args[i] # <<>> THEN args[i] ELSE def

\* Does text contain the sed pattern?
RECURSIVE Matches(_)
Matches(text) ==
    IF Len(text) < Len(Pattern) THEN FALSE
    ELSE \/ SubSeq(text, 1, Len(Pattern)) = Pattern
         \/ Matches(Tail(text))

\* Faulty variant: s/8000/${PORT}/g, which rewrites the container port too.
RECURSIVE SedEveryPort(_, _)
SedEveryPort(text, port) ==
    IF Len(text) < Len(Pattern) THEN text
    ELSE IF SubSeq(text, 1, Len(Pattern)) = Pattern
         THEN port \o <<":">> \o port
              \o SedEveryPort(SubSeq(text, Len(Pattern) + 1, Len(text)), port)
         ELSE <<Head(text)>> \o SedEveryPort(Tail(text), port)

\* s/8000:8000/${PORT}:8000/g on one line: every non-overlapping match, left
\* to right.  For a port made of digits the replacement is literal text.
RECURSIVE SedSubstitute(_, _)
SedSubstitute(text, port) ==
    IF Len(text) < Len(Pattern) THEN text
    ELSE IF SubSeq(text, 1, Len(Pattern)) = Pattern
         THEN port \o ContainerPart
              \o SedSubstitute(SubSeq(text, Len(Pattern) + 1, Len(text)), port)
         ELSE <<Head(text)>> \o SedSubstitute(Tail(text), port)

\* The four lines under "Access URLs".
AccessUrls(port) ==
    << <<"http://localhost:">> \o port \o <<"/">>,
       <<"http://localhost:">> \o port \o <<"/docs">>,
       <<"http://localhost:">> \o port \o <<"/redoc">>,
       <<"http://localhost:">> \o port \o <<"/">> >>

\* `exit n`, or a command failing under `set -e`: the script stops where it is.
Exit(code) ==
    /\ status' = "exited"
    /\ exitCode' = code
    /\ pc' = pc

Goto(step) ==
    /\ pc' = step
    /\ UNCHANGED << status, exitCode >>

At(step) == status = "running" /\ pc = step

---------------------------------------------------------------------------
Init ==
    /\ status = "idle"
    /\ pc = "docker_check"
    /\ exitCode = 0
    /\ argv = <<>>
    /\ PORT = DEFAULT_PORT
    /\ DOMAIN_NAME = DEFAULT_DOMAIN
    /\ docker \in BOOLEAN
    /\ compose \in BOOLEAN
    /\ envFile \in {NoFile, File(UserSecrets)}
    /\ desc = DefaultDescriptor
    /\ bak = NoFile
    /\ log = <<>>
    /\ urls = <<>>
    /\ failed = {}
    /\ start = [env |-> envFile, desc |-> desc, bak |-> bak]
    /\ copies = 0
    /\ runs = 0

\* The operator runs ./deploy.sh [port] [domain]; lines 13-18 resolve and
\* print the configuration.  Tools may have been installed or removed since.
StartRun ==
    /\ status \in {"idle", "exited"}
    /\ runs < MaxRuns
    /\ \E a \in Argvs, d \in BOOLEAN, c \in BOOLEAN :
          /\ argv' = a
          /\ PORT' = ParamOrDefault(a, 1, DEFAULT_PORT)
          /\ DOMAIN_NAME' = ParamOrDefault(a, 2, DEFAULT_DOMAIN)
          /\ docker' = d
          /\ compose' = c
    /\ status' = "running"
    /\ pc' = "docker_check"
    /\ exitCode' = 0
    /\ log' = <<"echo_config">>
    /\ urls' = <<>>
    /\ failed' = {}
    /\ start' = [env |-> envFile, desc |-> desc, bak |-> bak]
    /\ runs' = runs + 1
    /\ UNCHANGED << files, copies >>

\* Faulty variant: the message without the exit.
CheckDockerNoExit ==
    /\ At("docker_check")
    /\ log' = log \o <<"check_docker">>
                   \o (IF docker THEN <<>> ELSE <<"msg_docker_missing">>)
    /\ Goto("compose_check")
    /\ UNCHANGED << files, config, urls, failed, copies >>

\* if ! command -v docker; then echo ...; exit 1; fi
CheckDocker ==
    /\ At("docker_check")
    /\ IF docker
       THEN /\ Goto("compose_check")
            /\ log' = log \o <<"check_docker">>
       ELSE /\ Exit(1)
            /\ log' = log \o <<"check_docker", "msg_docker_missing">>
    /\ UNCHANGED << files, config, urls, failed, copies >>

\* if ! command -v docker-compose; then echo ...; exit 1; fi
CheckCompose ==
    /\ At("compose_check")
    /\ IF compose
       THEN /\ Goto("secrets")
            /\ log' = log \o <<"check_compose">>
       ELSE /\ Exit(1)
            /\ log' = log \o <<"check_compose", "msg_compose_missing">>
    /\ UNCHANGED << files, config, urls, failed, copies >>

\* Faulty variant: the copy without the [ ! -f .env ] test.
SecretsAlwaysCopy ==
    /\ At("secrets")
    /\ envFile' = File(TemplateSecrets)
    /\ copies' = copies + 1
    /\ log' = log \o <<"cp", "msg_update_env">>
    /\ failed' = failed
    /\ Goto("pause")
    /\ UNCHANGED << desc, bak, config, urls >>

\* Faulty variant: the copy without the read that follows it.
SecretsNoPause ==
    /\ At("secrets")
    /\ IF envFile.exists
       THEN /\ Goto("rewrite")
            /\ UNCHANGED << envFile, copies, log, failed >>
       ELSE /\ envFile' = File(TemplateSecrets)
            /\ copies' = copies + 1
            /\ log' = log \o <<"cp", "msg_update_env">>
            /\ failed' = failed
            /\ Goto("rewrite")
    /\ UNCHANGED << desc, bak, config, urls >>

\* if [ ! -f .env ]; then cp .env.example .env; echo ...; (read follows) fi
\* cp fails when .env.example is missing or unreadable.
Secrets ==
    /\ At("secrets")
    /\ IF envFile.exists
       THEN /\ Goto("rewrite")
            /\ UNCHANGED << envFile, copies, log, failed >>
       ELSE \/ /\ envFile' = File(TemplateSecrets)
               /\ copies' = copies + 1
               /\ log' = log \o <<"cp", "msg_update_env">>
               /\ failed' = failed
               /\ Goto("pause")
            \/ /\ \E code \in FailStatus : Exit(code)
               /\ log' = log \o <<"cp">>
               /\ failed' = failed \cup {"cp"}
               /\ UNCHANGED << envFile, copies >>
    /\ UNCHANGED << desc, bak, config, urls >>

\* read -p "Press Enter to continue or Ctrl+C to cancel ..."
\* Enter lets the script go on; end of input or Ctrl+C ends it.
Pause ==
    /\ At("pause")
    /\ \/ /\ Goto("rewrite")
          /\ log' = log \o <<"read">>
          /\ failed' = failed
       \/ /\ \E code \in FailStatus : Exit(code)
          /\ log' = log \o <<"read">>
          /\ failed' = failed \cup {"read"}
    /\ UNCHANGED << files, config, urls, copies >>

\* sed -i.bak "s/8000:8000/${PORT}:8000/g" docker-compose.yml
\* sed copies the file to .bak and writes the substituted text, and returns 0
\* whether or not the pattern matched; it fails when it cannot write.
Rewrite ==
    /\ At("rewrite")
    /\ \/ /\ bak' = File(desc)
          /\ desc' = SedSubstitute(desc, PORT)
          /\ log' = log \o <<"msg_configuring", "sed">>
          /\ failed' = failed
          /\ Goto("build")
       \/ /\ \E code \in FailStatus : Exit(code)
          /\ log' = log \o <<"msg_configuring", "sed">>
          /\ failed' = failed \cup {"sed"}
          /\ UNCHANGED << desc, bak >>
    /\ UNCHANGED << envFile, config, urls, copies >>

\* Faulty variant: the build exempt from `set -e` (docker-compose build || true).
BuildIgnoreFailure ==
    /\ At("build")
    /\ log' = log \o <<"build">>
    /\ \E ok \in BOOLEAN : failed' = IF ok THEN failed ELSE failed \cup {"build"}
    /\ Goto("up")
    /\ UNCHANGED << files, config, urls, copies >>

\* docker-compose build
Build ==
    /\ At("build")
    /\ log' = log \o <<"build">>
    /\ \/ /\ Goto("up")
          /\ failed' = failed
       \/ /\ \E code \in FailStatus : Exit(code)
          /\ failed' = failed \cup {"build"}
    /\ UNCHANGED << files, config, urls, copies >>

\* docker-compose up -d
Up ==
    /\ At("up")
    /\ log' = log \o <<"up">>
    /\ \/ /\ Goto("sleep")
          /\ failed' = failed
       \/ /\ \E code \in FailStatus : Exit(code)
          /\ failed' = failed \cup {"up"}
    /\ UNCHANGED << files, config, urls, copies >>

\* sleep 10
Settle ==
    /\ At("sleep")
    /\ log' = log \o <<"sleep">>
    /\ Goto("ready")
    /\ UNCHANGED << files, config, urls, failed, copies >>

\* Faulty variant: the else branch without its exit 1.
ReadyNoExit ==
    /\ At("ready")
    /\ \E up \in BOOLEAN :
          log' = log \o <<"ps_grep">>
                     \o (IF up THEN <<"msg_all_running">> ELSE <<"msg_not_ready">>)
    /\ Goto("report")
    /\ UNCHANGED << files, config, urls, failed, copies >>

\* if docker-compose ps | grep -q "Up"; then echo ...; else echo ...; exit 1; fi
\* The condition of an `if` is exempt from `set -e`.
Ready ==
    /\ At("ready")
    /\ \/ /\ log' = log \o <<"ps_grep", "msg_all_running">>
          /\ Goto("report")
       \/ /\ log' = log \o <<"ps_grep", "msg_not_ready">>
          /\ Exit(1)
    /\ UNCHANGED << files, config, urls, failed, copies >>

\* Lines 63-93: banner, docker-compose ps, the access URLs, hints.
Report ==
    /\ At("report")
    /\ \/ /\ log' = log \o <<"ps", "urls">>
          /\ urls' = AccessUrls(PORT)
          /\ failed' = failed
          /\ Goto("probe")
       \/ /\ log' = log \o <<"ps">>
          /\ \E code \in FailStatus : Exit(code)
          /\ failed' = failed \cup {"ps"}
          /\ urls' = urls
    /\ UNCHANGED << files, config, copies >>

\* Faulty variant: curl -f alone, without the `|| echo` fallback.
ProbeNoFallback ==
    /\ At("probe")
    /\ \/ /\ log' = log \o <<"curl">>
          /\ failed' = failed
          /\ Exit(0)
       \/ /\ log' = log \o <<"curl">>
          /\ failed' = failed \cup {"curl"}
          /\ \E code \in FailStatus : Exit(code)
    /\ UNCHANGED << files, config, urls, copies >>

\* curl -f http://localhost:${PORT}/ || echo "API health check failed ..."
\* The script ends with the status of the last command: curl's 0, or echo's 0.
Probe ==
    /\ At("probe")
    /\ \/ /\ log' = log \o <<"curl">>
          /\ failed' = failed
       \/ /\ log' = log \o <<"curl", "msg_health_warning">>
          /\ failed' = failed \cup {"curl"}
    /\ Exit(0)
    /\ UNCHANGED << files, config, urls, copies >>

Next ==
    \/ StartRun
    \/ CheckDocker
    \/ CheckCompose
    \/ Secrets
    \/ Pause
    \/ Rewrite
    \/ Build
    \/ Up
    \/ Settle
    \/ Ready
    \/ Report
    \/ Probe

Spec == Init /\ [][Next]_vars

---------------------------------------------------------------------------
\* Vocabulary of the properties.

Ran(step) == \E i \in DOMAIN log : log[i] = step

Times(step) == Cardinality({ i \in DOMAIN log : log[i] = step })

Exited == status = "exited"

FilesAsAtStart ==
    /\ envFile = start.env
    /\ desc = start.desc
    /\ bak = start.bak

\* Everything the script does after the two tool checks.
AfterToolCheck ==
    { "cp", "msg_update_env", "read", "msg_configuring", "sed", "build", "up",
      "sleep", "ps_grep", "msg_all_running", "msg_not_ready", "ps", "urls",
      "curl", "msg_health_warning" }

---------------------------------------------------------------------------
\* C1: when docker or docker-compose is not installed, the run stops in the
\* tool check with exit status 1: it never gets past the check of the missing
\* tool, runs none of the later commands (cp, read, sed, build, up, ps, curl),
\* prints no URL, and leaves .env, docker-compose.yml and the backup as they
\* were when the run started.
C1_ToolMissingStopsRun ==
    (status # "idle" /\ (~docker \/ ~compose)) =>
        /\ pc \in {"docker_check", "compose_check"}
        /\ pc = "compose_check" => docker
        /\ Exited => exitCode = 1
        /\ \A s \in AfterToolCheck : ~Ran(s)
        /\ urls = <<>>
        /\ FilesAsAtStart

C1_Witness ==
    /\ Exited
    /\ docker /\ ~compose
    /\ pc = "compose_check"
    /\ exitCode = 1
    /\ ~start.env.exists
    /\ log = <<"echo_config", "check_docker", "check_compose", "msg_compose_missing">>

\* C2: once .env exists, no step of any run changes it: in particular a run
\* that starts with .env present ends with the same .env, and so does every
\* later run.
C2_SecretsNeverOverwritten ==
    [][envFile.exists => envFile' = envFile]_vars

C2_Witness ==
    /\ Exited
    /\ runs = 2
    /\ pc = "probe"
    /\ start.env = File(UserSecrets)
    /\ envFile = File(UserSecrets)

\* Position of the first occurrence of a step in the log (0 when it did not run).
FirstAt(step) ==
    IF Ran(step) THEN CHOOSE i \in DOMAIN log :
                          /\ log[i] = step
                          /\ \A j \in 1..(i - 1) : log[j] # step
    ELSE 0

\* The run has gone past the secrets step (lines 31-38).
PastSecrets ==
    \/ pc \in {"pause", "rewrite", "build", "up", "sleep", "ready", "report", "probe"}
    \/ pc = "secrets" /\ Exited

\* C3 as stated: whenever a run starts without .env and passes the tool
\* check, the template is copied exactly once (so .env then holds the
\* template), and over all runs the copy happens once only.
C3_AsStated ==
    /\ copies <= 1
    /\ (status # "idle" /\ ~start.env.exists /\ PastSecrets) =>
           /\ Times("cp") = 1
           /\ envFile = File(TemplateSecrets)

\* C3 as amended: when a run starts without .env, passes the tool check and
\* the cp of the template succeeds, exactly one copy is made, before the
\* pause; sed, build and up run only after the operator has confirmed; a run
\* that starts with .env present neither copies nor pauses, and over all runs
\* at most one copy succeeds.  A failed cp ends the run with .env still absent.
C3_CopyOnceBeforePause ==
    /\ copies <= 1
    /\ (status # "idle" /\ ~start.env.exists /\ PastSecrets /\ "cp" \notin failed) =>
           /\ Times("cp") = 1
           /\ envFile = File(TemplateSecrets)
           /\ copies = 1
    /\ (status # "idle" /\ ~start.env.exists /\ "cp" \in failed) =>
           /\ Exited /\ pc = "secrets" /\ exitCode # 0
           /\ ~envFile.exists
           /\ ~Ran("read")
    /\ (pc = "pause" \/ Ran("read")) =>
           /\ Ran("cp")
           /\ Ran("read") => FirstAt("cp") < FirstAt("read")
           /\ Times("read") <= 1
    /\ (status # "idle" /\ ~start.env.exists
           /\ (Ran("sed") \/ Ran("build") \/ Ran("up"))) =>
           /\ Ran("read")
           /\ "read" \notin failed
           /\ FirstAt("read") < FirstAt("sed")
    /\ (status # "idle" /\ start.env.exists) =>
           /\ ~Ran("cp")
           /\ ~Ran("read")

C3_Witness ==
    /\ ~start.env.exists
    /\ log = <<"echo_config", "check_docker", "check_compose", "cp",
               "msg_update_env", "read", "msg_configuring", "sed", "build">>
    /\ copies = 1
    /\ envFile = File(TemplateSecrets)

\* C4 as stated: when the readiness check finds no service "Up", the run ends
\* with a non-zero exit status and the access URLs of the resolved port have
\* been printed by that run.
C4_AsStated ==
    (Exited /\ Ran("msg_not_ready")) =>
        /\ exitCode # 0
        /\ urls = AccessUrls(PORT)

\* C4 as amended: when the readiness check finds no service "Up", the run
\* ends there with exit status 1 and prints no access URL and runs no health
\* probe; the access URLs are printed only by a run whose readiness check
\* found a service "Up".
C4_NotReadyExitsWithoutUrls ==
    /\ Ran("msg_not_ready") =>
           /\ Exited /\ pc = "ready" /\ exitCode = 1
           /\ urls = <<>>
           /\ ~Ran("ps") /\ ~Ran("urls") /\ ~Ran("curl")
    /\ urls # <<>> =>
           /\ Ran("msg_all_running")
           /\ urls = AccessUrls(PORT)

C4_Witness ==
    /\ Exited
    /\ Ran("msg_not_ready")
    /\ PORT = <<"9", "0", "9", "0">>
    /\ exitCode = 1

\* C5: when docker-compose.yml does not contain "8000:8000" at the rewrite
\* step, the rewrite changes nothing and is a reported, terminal failure: sed
\* counts as failed, the run ends with a non-zero status, and neither build
\* nor up is invoked.
C5_MissingPatternIsFailure ==
    (status # "idle" /\ Ran("sed") /\ ~Matches(start.desc)) =>
        /\ desc = start.desc
        /\ "sed" \in failed
        /\ Exited /\ exitCode # 0
        /\ ~Ran("build") /\ ~Ran("up")

\* C6: throughout a run PORT is $1 when a non-empty $1 was given and 88888
\* otherwise, DOMAIN is $2 when a non-empty $2 was given and the fixed host
\* name otherwise, each independently of the other, and no step of the run
\* changes either value after it was resolved.
C6_Resolved ==
    status # "idle" =>
        /\ (Len(argv) >= 1 /\ argv[1] # <<>>) => PORT = argv[1]
        /\ (Len(argv) = 0 \/ (Len(argv) >= 1 /\ argv[1] = <<>>)) =>
               PORT = <<"8", "8", "8", "8", "8">>
        /\ (Len(argv) >= 2 /\ argv[2] # <<>>) => DOMAIN_NAME = argv[2]
        /\ (Len(argv) <= 1 \/ (Len(argv) >= 2 /\ argv[2] = <<>>)) =>
               DOMAIN_NAME = <<"evoagentx.evoagentx.naranja.lucienfc.eu.org">>

C6_OverrideElseDefault ==
    /\ []C6_Resolved
    /\ [][runs' = runs => (PORT' = PORT /\ DOMAIN_NAME' = DOMAIN_NAME)]_vars

C6_Witness ==
    /\ Exited
    /\ pc = "probe"
    /\ argv = << <<>>, <<"example.org">> >>
    /\ PORT = DEFAULT_PORT
    /\ DOMAIN_NAME = <<"example.org">>

\* C7 as stated (its last part): exit status 1 comes only from a missing tool
\* or a failed readiness check.
C7_AsStated ==
    /\ (Exited /\ pc = "probe") => exitCode = 0
    /\ (Exited /\ exitCode = 1) => pc \in {"docker_check", "compose_check", "ready"}

\* C7 as amended: a run that reaches the health probe exits with status 0
\* whether curl succeeds or fails, a curl failure only prints the warning, and
\* status 0 is the status of such runs alone; a non-zero status (1 included)
\* comes from a missing tool, a failed readiness check, or a command before
\* the probe that failed under `set -e` (cp, read, sed, build, up, ps), never
\* from the probe.
C7_ProbeNeverFailsRun ==
    /\ (Exited /\ pc = "probe") =>
           /\ exitCode = 0
           /\ Ran("curl")
           /\ "curl" \in failed <=> Ran("msg_health_warning")
    /\ (Exited /\ exitCode = 0) =>
           /\ pc = "probe"
           /\ failed \subseteq {"curl"}
           /\ Ran("msg_all_running")
    /\ (Exited /\ exitCode # 0) =>
           \/ pc = "docker_check" /\ ~docker /\ exitCode = 1
           \/ pc = "compose_check" /\ ~compose /\ exitCode = 1
           \/ pc = "ready" /\ Ran("msg_not_ready") /\ exitCode = 1
           \/ pc = "secrets" /\ failed = {"cp"}
           \/ pc = "pause" /\ failed = {"read"}
           \/ pc = "rewrite" /\ failed = {"sed"}
           \/ pc = "build" /\ failed = {"build"}
           \/ pc = "up" /\ failed = {"up"}
           \/ pc = "report" /\ failed = {"ps"}

C7_Witness ==
    /\ Exited
    /\ pc = "probe"
    /\ "curl" \in failed
    /\ Ran("msg_health_warning")
    /\ exitCode = 0

\* C8: a run that starts with the mapping "8000:8000" and completes (exit 0)
\* with resolved port P leaves the mapping "P:8000", has printed
\* http://localhost:P/ as its access URL, and leaves in the backup the
\* descriptor as it was before the rewrite; with P = 9090 the mapping is
\* "9090:8000" and the URL http://localhost:9090/.
C8_RewriteFromDefault ==
    (Exited /\ exitCode = 0 /\ start.desc = DefaultDescriptor) =>
        /\ desc = PORT \o <<":", "8", "0", "0", "0">>
        /\ Len(urls) = 4
        /\ urls[1] = <<"http://localhost:">> \o PORT \o <<"/">>
        /\ bak = File(start.desc)
        /\ PORT = <<"9", "0", "9", "0">> =>
               /\ desc = <<"9", "0", "9", "0", ":", "8", "0", "0", "0">>
               /\ urls[1] = <<"http://localhost:", "9", "0", "9", "0", "/">>

C8_Witness ==
    /\ Exited
    /\ exitCode = 0
    /\ start.desc = DefaultDescriptor
    /\ PORT = <<"9", "0", "9", "0">>
    /\ desc = <<"9", "0", "9", "0", ":", "8", "0", "0", "0">>
    /\ bak = File(DefaultDescriptor)

\* Everything a run can do, in the order of the script.
Order ==
    << "echo_config", "check_docker", "msg_docker_missing", "check_compose",
       "msg_compose_missing", "cp", "msg_update_env", "read", "msg_configuring",
       "sed", "build", "up", "sleep", "ps_grep", "msg_all_running",
       "msg_not_ready", "ps", "urls", "curl", "msg_health_warning" >>

Rank(step) == CHOOSE k \in DOMAIN Order : Order[k] = step

\* C9: what a run does is done in the script's order, each thing at most
\* once; a command before the probe that fails, a missing tool and a failed
\* readiness check each end the run at once with a non-zero status, so that
\* nothing runs after them (no up after a failed build, no readiness check
\* after a failed up); and what earlier steps did stays done: the copied
\* .env, the rewritten descriptor and its backup.
C9_OrderedAbortNoRollback ==
    /\ \A i \in DOMAIN log : \E k \in DOMAIN Order : Order[k] = log[i]
    /\ \A i, j \in DOMAIN log : i < j => Rank(log[i]) < Rank(log[j])
    /\ \A s \in failed \ {"curl"} :
           /\ Exited /\ exitCode # 0
           /\ log[Len(log)] = s
    /\ \A m \in {"msg_docker_missing", "msg_compose_missing", "msg_not_ready"} :
           Ran(m) => /\ Exited /\ exitCode # 0
                     /\ log[Len(log)] = m
    /\ "build" \in failed => ~Ran("up")
    /\ "up" \in failed => ~Ran("sleep") /\ ~Ran("ps_grep")
    /\ (Ran("up") \/ Ran("build")) => Ran("sed") /\ "sed" \notin failed
    /\ Ran("ps_grep") => Ran("up") /\ Ran("sleep")
    /\ Ran("curl") => Ran("urls") /\ Ran("ps") /\ Ran("msg_all_running")
    /\ (Ran("sed") /\ "sed" \notin failed) =>
           /\ bak = File(start.desc)
           /\ desc = SedSubstitute(start.desc, PORT)
    /\ (Ran("cp") /\ "cp" \notin failed) => envFile = File(TemplateSecrets)

C9_Witness ==
    /\ Exited
    /\ failed = {"up"}
    /\ exitCode # 0
    /\ Ran("cp") /\ Ran("read") /\ Ran("build")
    /\ envFile = File(TemplateSecrets)
    /\ start.desc = DefaultDescriptor
    /\ PORT = <<"9", "0", "9", "0">>
    /\ desc = <<"9", "0", "9", "0", ":", "8", "0", "0", "0">>
    /\ bak = File(DefaultDescriptor)

\* C10: after every completed run the host port of the mapping in
\* docker-compose.yml is the port of that run, the one in its access URLs.
C10_MappingFollowsLastRun ==
    (Exited /\ exitCode = 0) =>
        /\ urls = AccessUrls(PORT)
        /\ desc = PORT \o ContainerPart

====
